---- MODULE Spec2Model ----
(***************************************************************************)
(* Model of the catalog-sync and bounded-download engine of               *)
(* okex_historical_pull_data (src/src/data_fetcher.rs, driven by           *)
(* src/src/main.rs).                                                       *)
(*                                                                         *)
(* Strings are sequences of one-character strings, a NaiveDate is a record *)
(* [y, m, d], an Option is a sequence of length 0 (None) or 1 (Some), and  *)
(* a serde_json::Value is a record [t, v] tagged with its JSON type.       *)
(***************************************************************************)
EXTENDS Integers, Sequences, FiniteSets, TLC

\* ------------------------------------------------------------------ bounds

\* Number of calendar days after the first one that the clock may reach.
MaxDay == 2
\* Entries per page of the remote partition listing (the code asks for 100).
PageSize == 2
\* Number of partitions older than the first day of the clock.
Past == 1
\* Longest remote listing of the discovery specification.
MaxListing == 3
\* Number of download tasks of the permit-pool specification beyond the ceiling.
ExtraTasks == 2

\* ------------------------------------------------------------------ options

None == <<>>
Some(x) == <<x>>
IsSome(o) == Len(o) = 1
Unwrap(o) == o[1]

\* ------------------------------------------------------------------ strings

Digits == <<"0", "1", "2", "3", "4", "5", "6", "7", "8", "9">>

IsDigit(c) == \E i \in 1..10 : Digits[i] = c

DigitVal(c) == (CHOOSE i \in 1..10 : Digits[i] = c) - 1

Pow10(n) == IF n = 0 THEN 1 ELSE IF n = 1 THEN 10 ELSE IF n = 2 THEN 100 ELSE 1000

\* n written in decimal, zero-padded to w digits (w <= 4, n < 10^w)
Pad(n, w) == [i \in 1..w |-> Digits[((n \div Pow10(w - i)) % 10) + 1]]

AllDigits(s) == \A i \in 1..Len(s) : IsDigit(s[i])

RECURSIVE Number(_)
Number(s) == IF Len(s) = 0 THEN 0
             ELSE 10 * Number(SubSeq(s, 1, Len(s) - 1)) + DigitVal(s[Len(s)])

\* str::contains
Contains(s, sub) ==
    \E i \in 1..(Len(s) + 1) :
        /\ i + Len(sub) - 1 <= Len(s)
        /\ SubSeq(s, i, i + Len(sub) - 1) = sub

\* ------------------------------------------------------------------ dates

IsLeap(y) == (y % 4 = 0 /\ y % 100 # 0) \/ y % 400 = 0

DaysInMonth(y, m) ==
    IF m = 2 THEN (IF IsLeap(y) THEN 29 ELSE 28)
    ELSE IF m \in {4, 6, 9, 11} THEN 30 ELSE 31

NaiveDate(y, m, d) == [y |-> y, m |-> m, d |-> d]

ValidYmd(y, m, d) == m \in 1..12 /\ d >= 1 /\ d <= DaysInMonth(y, m)

\* NaiveDate's ordering: by year, then month, then day
DateLT(a, b) ==
    \/ a.y < b.y
    \/ a.y = b.y /\ a.m < b.m
    \/ a.y = b.y /\ a.m = b.m /\ a.d < b.d

DateLE(a, b) == a = b \/ DateLT(a, b)

SuccDay(a) ==
    IF a.d < DaysInMonth(a.y, a.m) THEN NaiveDate(a.y, a.m, a.d + 1)
    ELSE IF a.m < 12 THEN NaiveDate(a.y, a.m + 1, 1)
    ELSE NaiveDate(a.y + 1, 1, 1)

\* The first calendar day of the model; the window crosses a year boundary.
FirstDay == NaiveDate(2023, 12, 30)

PredDay(a) ==
    IF a.d > 1 THEN NaiveDate(a.y, a.m, a.d - 1)
    ELSE IF a.m > 1 THEN NaiveDate(a.y, a.m - 1, DaysInMonth(a.y, a.m - 1))
    ELSE NaiveDate(a.y - 1, 12, 31)

RECURSIVE DayN(_)
DayN(n) == IF n = 0 THEN FirstDay
           ELSE IF n > 0 THEN SuccDay(DayN(n - 1))
           ELSE PredDay(DayN(n + 1))

\* The days the clock goes through, and the days before them.
Days == {DayN(n) : n \in 0..MaxDay}
PastDays == {DayN(0 - n) : n \in 1..Past}

\* NaiveDate::format("%Y-%m-%d")
FormatDash(a) == Pad(a.y, 4) \o <<"-">> \o Pad(a.m, 2) \o <<"-">> \o Pad(a.d, 2)

\* NaiveDate::parse_from_str(s, "%Y-%m-%d"): None is the parse error
ParseDash(s) ==
    IF /\ Len(s) = 10
       /\ s[5] = "-" /\ s[8] = "-"
       /\ AllDigits(SubSeq(s, 1, 4)) /\ AllDigits(SubSeq(s, 6, 7))
       /\ AllDigits(SubSeq(s, 9, 10))
       /\ ValidYmd(Number(SubSeq(s, 1, 4)), Number(SubSeq(s, 6, 7)),
                   Number(SubSeq(s, 9, 10)))
    THEN Some(NaiveDate(Number(SubSeq(s, 1, 4)), Number(SubSeq(s, 6, 7)),
                        Number(SubSeq(s, 9, 10))))
    ELSE None

\* NaiveDate::parse_from_str(s, "%Y%m%d"): None is the parse error
ParseCompact(s) ==
    IF /\ Len(s) = 8
       /\ AllDigits(s)
       /\ ValidYmd(Number(SubSeq(s, 1, 4)), Number(SubSeq(s, 5, 6)),
                   Number(SubSeq(s, 7, 8)))
    THEN Some(NaiveDate(Number(SubSeq(s, 1, 4)), Number(SubSeq(s, 5, 6)),
                        Number(SubSeq(s, 7, 8))))
    ELSE None

\* The name the remote gives the partition of a calendar day (YYYYMMDD).
KeyOf(a) == Pad(a.y, 4) \o Pad(a.m, 2) \o Pad(a.d, 2)

\* ------------------------------------------------------------------ JSON

JNull == [t |-> "null", v |-> <<>>]
JBool(b) == [t |-> "bool", v |-> <<b>>]
JNum(n) == [t |-> "num", v |-> <<n>>]
JStr(s) == [t |-> "str", v |-> s]
JArr(a) == [t |-> "arr", v |-> a]
JObj(f) == [t |-> "obj", v |-> f]

\* Value[key]: Null unless the value is an object that has the key
JIndex(val, key) ==
    IF val.t = "obj" THEN (IF key \in DOMAIN val.v THEN val.v[key] ELSE JNull)
    ELSE JNull

K_last_update == <<"l", "a", "s", "t", "_", "u", "p", "d", "a", "t", "e">>
K_dates == <<"d", "a", "t", "e", "s">>
K_downloaded == <<"d", "o", "w", "n", "l", "o", "a", "d", "e", "d">>
K_files == <<"f", "i", "l", "e", "s">>

\* ------------------------------------------------------------------ catalog

DateRecord(downloaded, files) == [downloaded |-> downloaded, files |-> files]

NoRecords == [k \in {} |-> DateRecord(FALSE, <<>>)]

FileRecord(file_name) == [file_name |-> file_name]

\* The fields a freshly constructed fetcher starts with (new, lines 63-72).
FreshCatalog == [last_update |-> None, records |-> NoRecords]

\* ------------------------------------------------------------------ Catalog Store

\* The state file: None when it does not exist, else its content.  A content
\* is unreadable, or text that is no JSON document, or the text of a Value.
FileText(json) == Some([readable |-> TRUE, parses |-> TRUE, json |-> json])
FileGarbage == Some([readable |-> TRUE, parses |-> FALSE, json |-> JNull])
FileUnreadable == Some([readable |-> FALSE, parses |-> FALSE, json |-> JNull])

\* record["downloaded"].as_bool().unwrap_or(false)
LoadDownloaded(rec) ==
    IF JIndex(rec, K_downloaded).t = "bool" THEN JIndex(rec, K_downloaded).v[1]
    ELSE FALSE

\* record["files"].as_array().unwrap_or(&vec![])
LoadFilesArray(rec) ==
    IF JIndex(rec, K_files).t = "arr" THEN JIndex(rec, K_files).v ELSE <<>>

\* file.as_str().unwrap() panics on an entry that is no string
LoadFilesPanics(rec) ==
    \E i \in 1..Len(LoadFilesArray(rec)) : LoadFilesArray(rec)[i].t # "str"

LoadRecord(rec) ==
    DateRecord(LoadDownloaded(rec),
               [i \in 1..Len(LoadFilesArray(rec)) |->
                    FileRecord(LoadFilesArray(rec)[i].v)])

\* load_from_file on a fetcher whose fields are cat.  res is "ok", "err"
\* (an Err is returned) or "panic"; the fields are those the fetcher is
\* left with.
LoadFromFile(file, cat) ==
    IF ~IsSome(file) \/ ~Unwrap(file).readable \/ ~Unwrap(file).parses
    THEN [res |-> "err", last_update |-> cat.last_update, records |-> cat.records]
    ELSE
      LET json_data == Unwrap(file).json
          lu == JIndex(json_data, K_last_update)
          dates == JIndex(json_data, K_dates)
          new_last == IF lu.t = "str" THEN ParseDash(lu.v) ELSE cat.last_update
      IN  IF lu.t = "str" /\ ~IsSome(ParseDash(lu.v))
          THEN [res |-> "err", last_update |-> cat.last_update,
                records |-> cat.records]
          ELSE IF dates.t # "obj"
          THEN [res |-> "ok", last_update |-> new_last, records |-> cat.records]
          ELSE IF \E k \in DOMAIN dates.v : LoadFilesPanics(dates.v[k])
          THEN [res |-> "panic", last_update |-> new_last,
                records |-> cat.records]
          ELSE [res |-> "ok", last_update |-> new_last,
                records |-> [k \in DOMAIN dates.v |-> LoadRecord(dates.v[k])]]

\* A record written with its downloaded flag cleared.
SaveRecord_FlagLost(date_record) ==
    JObj([k \in {K_downloaded, K_files} |->
            IF k = K_downloaded THEN JBool(FALSE)
            ELSE JArr([i \in 1..Len(date_record.files) |->
                          JStr(date_record.files[i].file_name)])])

\* One entry of the "dates" object (lines 241-251).
SaveRecord(date_record) ==
    JObj([k \in {K_downloaded, K_files} |->
            IF k = K_downloaded THEN JBool(date_record.downloaded)
            ELSE JArr([i \in 1..Len(date_record.files) |->
                          JStr(date_record.files[i].file_name)])])

\* The document save_to_file writes for the fields of cat.
SaveDoc(cat) ==
    JObj([k \in (IF IsSome(cat.last_update) THEN {K_last_update} ELSE {})
                    \cup {K_dates} |->
            IF k = K_last_update THEN JStr(FormatDash(Unwrap(cat.last_update)))
            ELSE JObj([d \in DOMAIN cat.records |-> SaveRecord(cat.records[d])])])

\* A save that returns without touching the state file.
SaveToFile_Skipped(file, cat, io) == file

\* The state file after save_to_file: io is "ok", "create_failed" (File::create
\* fails, the file is untouched) or "write_failed" (created, hence truncated,
\* and not written in full).
SaveToFile(file, cat, io) ==
    IF io = "ok" THEN FileText(SaveDoc(cat))
    ELSE IF io = "create_failed" THEN file
    ELSE FileGarbage

SaveOutcomes == {"ok", "create_failed", "write_failed"}

\* The Catalog an intact state file was written from, after save_to_file.
SavedAfter(was, cat, io) ==
    IF io = "ok" THEN Some(cat) ELSE IF io = "create_failed" THEN was ELSE None

\* ------------------------------------------------------------------ remote listing

\* One response of the listing endpoint, as the code reads it:
\* data.recordFileList (None when it is no array), whose entries are their
\* fileName (None when it is no string), data.isTruncate after
\* as_bool().unwrap_or(false), and data.nextMarker after as_str().
Page(list, trunc, marker) ==
    [recordFileList |-> list, isTruncate |-> trunc, nextMarker |-> marker]

Marker(k) == <<"m", Digits[k + 1]>>

Min(a, b) == IF a < b THEN a ELSE b

NumPages(listing) ==
    IF Len(listing) = 0 THEN 1 ELSE (Len(listing) + PageSize - 1) \div PageSize

Cursor(k) == IF k = 1 THEN None ELSE Some(Marker(k))

\* A remote that serves listing (a sequence of fileNames) PageSize entries at
\* a time: cursor -> page, the request without nextMarker being cursor None.
Paginate(listing) ==
    [c \in {Cursor(k) : k \in 1..NumPages(listing)} |->
        LET k == CHOOSE j \in 1..NumPages(listing) : Cursor(j) = c
        IN  Page(Some([i \in 1..(Min(k * PageSize, Len(listing)) - (k - 1) * PageSize)
                          |-> Some(listing[(k - 1) * PageSize + i])]),
                 k < NumPages(listing),
                 IF k < NumPages(listing) THEN Some(Marker(k + 1)) ELSE None)]

\* The page the remote answers a cursor with; a cursor it never issued gets
\* an empty last page.
Respond(srv, cursor) ==
    IF cursor \in DOMAIN srv THEN srv[cursor] ELSE Page(Some(<<>>), FALSE, None)

\* Every fileName the remote lists.
RECURSIVE SeqToSet(_)
SeqToSet(q) == IF Len(q) = 0 THEN {} ELSE {q[1]} \cup SeqToSet(Tail(q))

Listed(srv) ==
    UNION {IF IsSome(srv[c].recordFileList)
           THEN {Unwrap(e) : e \in {x \in SeqToSet(Unwrap(srv[c].recordFileList)) : IsSome(x)}}
           ELSE {} : c \in DOMAIN srv}

\* The dates of a set, newest first.
RECURSIVE NewestFirst(_)
NewestFirst(dates) ==
    IF dates = {} THEN <<>>
    ELSE LET top == CHOOSE a \in dates : \A b \in dates : DateLE(b, a)
         IN  <<KeyOf(top)>> \o NewestFirst(dates \ {top})

\* ------------------------------------------------------------------ Partition Discoverer

\* The boundary test letting the date of the watermark through.
AlreadyKnown_Strict(naive_date, last_known_date) ==
    IsSome(last_known_date) /\ DateLT(naive_date, Unwrap(last_known_date))

\* The date is already known: at or before the last known date
\* (lines 172-173).
AlreadyKnown(naive_date, last_known_date) ==
    IsSome(last_known_date) /\ DateLE(naive_date, Unwrap(last_known_date))

\* The for loop of fetch_dates over the entries of one page from entry i on
\* (lines 167-184).  res is "ok", "err" (the date does not parse) or "panic"
\* (fileName is no string).
RECURSIVE ScanDates(_, _, _, _, _)
ScanDates(dates, i, acc, last_known_date, today_) ==
    IF i > Len(dates)
    THEN [res |-> "ok", records |-> acc, continue_fetching |-> TRUE]
    ELSE IF ~IsSome(dates[i])
    THEN [res |-> "panic", records |-> acc, continue_fetching |-> TRUE]
    ELSE IF ~IsSome(ParseCompact(Unwrap(dates[i])))
    THEN [res |-> "err", records |-> acc, continue_fetching |-> TRUE]
    ELSE LET date_str == Unwrap(dates[i])
             naive_date == Unwrap(ParseCompact(date_str))
         IN  IF AlreadyKnown(naive_date, last_known_date)
             THEN [res |-> "ok", records |-> acc, continue_fetching |-> FALSE]
             ELSE IF naive_date = today_
             THEN ScanDates(dates, i + 1, acc, last_known_date, today_)
             ELSE ScanDates(dates, i + 1,
                            (date_str :> DateRecord(FALSE, <<>>)) @@ acc,
                            last_known_date, today_)

\* ------------------------------------------------------------------ state

VARIABLES
    clock,               \* the calendar day it is (Local::now().date_naive())
    server,              \* the remote partition listing: cursor -> page
    store,               \* the state file {data_type}.json
    disk,                \* the files under ./data: <<date, file_name>> -> content
    pc,                  \* where the process is; "off" when none runs
    exit,                \* how the process ended: "ok", "err", "panic"; "none" while it runs
    today,               \* DateFilesFetcher.today
    last_update,         \* DateFilesFetcher.last_update
    records,             \* DateFilesFetcher.records
    ignore_undownloaded, \* DateFilesFetcher.ignore_undownloaded
    fd_records,          \* fetch_dates: records
    next_marker,         \* fetch_dates: next_marker
    updated_records,     \* update_file_lists: updated_records
    visited,             \* update_file_lists: the records the for loop has visited
    downloads,           \* download_unfetched_files: downloads
    download_status,     \* download_unfetched_files: download_status
    tasks,               \* download_unfetched_files: the spawned tasks' states
    semaphore,           \* download_unfetched_files: free permits
    awaited,             \* download_unfetched_files: results taken by the await loop
    requested,           \* the save paths a fetch request was sent for in this pass
    filter,              \* the predicate main passed to download_unfetched_files
    disk0,               \* the paths that existed when the tasks were scheduled
    loaded,              \* the Catalog as new() loaded it, before any discovery
    saved,               \* the Catalog the state file was last written from, if it is intact
    prev,                \* the last process that ended right after its Bootstrap
    pool                 \* the permit pool seen as counts of tasks

env_vars == <<clock, server, store, disk>>
fetcher_vars == <<today, last_update, records, ignore_undownloaded>>
discover_vars == <<fd_records, next_marker>>
refresh_vars == <<updated_records, visited>>
download_vars == <<downloads, download_status, tasks, semaphore, awaited, requested,
                   filter, disk0>>
vars == <<clock, server, store, disk, pc, exit, today, last_update, records,
          ignore_undownloaded, fd_records, next_marker, updated_records, visited,
          downloads, download_status, tasks, semaphore, awaited, requested, filter,
          disk0, loaded, saved, prev, pool>>

max_concurrent_downloads == 20

Catalog == [last_update |-> last_update, records |-> records]

\* The permit pool while no task has been scheduled.
PoolIdle == [queued |-> 0, fetching |-> 0, writing |-> 0, ended |-> 0,
             semaphore |-> max_concurrent_downloads]

NoFiles == [p \in {} |-> "full"]
NoStatus == [k \in {} |-> FALSE]
NoLists == [k \in {} |-> <<>>]

\* main's predicate when neither -i nor -e is given.
AcceptAll == [include |-> None, exclude |-> None]

\* The process-local state of a process that has not started.
Idle == [today |-> FirstDay, last_update |-> None, records |-> NoRecords,
         ignore_undownloaded |-> FALSE, fd_records |-> NoRecords,
         next_marker |-> None, updated_records |-> NoLists, visited |-> {},
         downloads |-> <<>>, download_status |-> NoStatus, tasks |-> <<>>,
         semaphore |-> max_concurrent_downloads, awaited |-> 0, requested |-> {},
         filter |-> AcceptAll, disk0 |-> {}, loaded |-> FreshCatalog]

ProcessIdle ==
    /\ today = Idle.today
    /\ last_update = Idle.last_update
    /\ records = Idle.records
    /\ ignore_undownloaded = Idle.ignore_undownloaded
    /\ fd_records = Idle.fd_records
    /\ next_marker = Idle.next_marker
    /\ updated_records = Idle.updated_records
    /\ visited = Idle.visited
    /\ downloads = Idle.downloads
    /\ download_status = Idle.download_status
    /\ tasks = Idle.tasks
    /\ semaphore = Idle.semaphore
    /\ awaited = Idle.awaited
    /\ requested = Idle.requested
    /\ filter = Idle.filter
    /\ disk0 = Idle.disk0
    /\ loaded = Idle.loaded

Init ==
    /\ clock = FirstDay
    /\ server = Paginate(<<>>)
    /\ store = None
    /\ disk = NoFiles
    /\ pc = "off"
    /\ exit = "none"
    /\ ProcessIdle
    /\ saved = None
    /\ prev = None
    /\ pool = PoolIdle

\* ------------------------------------------------------------------ environment

\* Midnight passes while no process runs.
Tick ==
    /\ pc = "off"
    /\ clock # DayN(MaxDay)
    /\ clock' = SuccDay(clock)
    /\ UNCHANGED <<server, store, disk, pc, exit, fetcher_vars, discover_vars,
                   refresh_vars, download_vars, loaded, saved, prev, pool>>

ListedDates(srv) == {a \in PastDays \cup Days : KeyOf(a) \in Listed(srv)}

\* The remote publishes the partition of a day that has begun; its listing
\* stays newest first.
Publish ==
    /\ pc = "off"
    /\ \E a \in Days :
          /\ a \notin ListedDates(server)
          /\ DateLE(a, clock)
          /\ server' = Paginate(NewestFirst(ListedDates(server) \cup {a}))
    /\ UNCHANGED <<clock, store, disk, pc, exit, fetcher_vars, discover_vars,
                   refresh_vars, download_vars, loaded, saved, prev, pool>>

\* ------------------------------------------------------------------ Bootstrap

\* The process ends: exit is its outcome, its memory stays readable until
\* Terminate.
Ends(outcome) == pc' = "done" /\ exit' = outcome

\* A mistaken test: the loaded data never counts as being of today.
UpToDate_Never(today_, last) == FALSE

\* The loaded data is of today (line 83).
UpToDate(today_, last) == Some(today_) = last

\* DateFilesFetcher::new up to its first request (lines 59-92).
Start ==
    /\ pc = "off"
    /\ LET l == LoadFromFile(store, FreshCatalog)
       IN  /\ today' = clock
           /\ IF ~IsSome(store)
              THEN /\ last_update' = None
                   /\ records' = NoRecords
                   /\ loaded' = FreshCatalog
                   /\ pc' = "fetch_dates"
                   /\ exit' = "none"
              ELSE /\ last_update' = l.last_update
                   /\ records' = l.records
                   /\ loaded' = [last_update |-> l.last_update, records |-> l.records]
                   /\ IF l.res = "panic" THEN Ends("panic")
                      ELSE IF l.res = "err" THEN pc' = "fetch_dates" /\ exit' = "none"
                      ELSE IF ~UpToDate(clock, l.last_update)
                      THEN pc' = "fetch_dates" /\ exit' = "none"
                      ELSE pc' = "ready" /\ exit' = "none"
    /\ UNCHANGED <<env_vars, ignore_undownloaded, discover_vars, refresh_vars,
                   download_vars, saved, prev, pool>>

\* A failure that keeps the partitions found so far as the records.
FetchDatesFails_KeepsPartial(outcome) ==
    /\ Ends(outcome)
    /\ records' = fd_records
    /\ UNCHANGED <<discover_vars, today, last_update, ignore_undownloaded>>

\* fetch_dates returns Err (or panics): the ? of line 139 leaves
\* fetch_and_save before self.records is assigned.
FetchDatesFails(outcome) ==
    /\ Ends(outcome)
    /\ UNCHANGED <<discover_vars, fetcher_vars>>

\* One iteration of the while loop of fetch_dates (lines 152-194): a request
\* and the scan of the page it returns.  transport is what the request does.
FetchDatesPage ==
    /\ pc = "fetch_dates"
    /\ \E transport \in {"ok", "send_failed", "bad_json"} :
          LET data == Respond(server, next_marker)
              scan == ScanDates(Unwrap(data.recordFileList), 1, fd_records,
                                last_update, today)
          IN  IF transport # "ok"
              THEN FetchDatesFails("err")
              ELSE IF ~IsSome(data.recordFileList)
              THEN FetchDatesFails("panic")
              ELSE IF scan.res # "ok"
              THEN FetchDatesFails(scan.res)
              ELSE /\ fd_records' = scan.records
                   /\ exit' = exit
                   /\ IF ~scan.continue_fetching
                      THEN pc' = "fetch_and_save" /\ next_marker' = next_marker
                      ELSE /\ next_marker' = data.nextMarker
                           /\ pc' = IF data.isTruncate THEN "fetch_dates"
                                    ELSE "fetch_and_save"
                   /\ UNCHANGED fetcher_vars
    /\ UNCHANGED <<env_vars, refresh_vars, download_vars, loaded, saved, prev, pool>>

\* fetch_and_save once fetch_dates returned Ok (lines 139-141), and the rest
\* of new (lines 93-94).
FetchAndSave ==
    /\ pc = "fetch_and_save"
    /\ records' = fd_records
    /\ last_update' = Some(today)
    /\ \E io \in SaveOutcomes :
          /\ store' = SaveToFile(store, [last_update |-> Some(today),
                                         records |-> fd_records], io)
          /\ saved' = SavedAfter(saved, [last_update |-> Some(today),
                                         records |-> fd_records], io)
          /\ IF io = "ok" THEN pc' = "ready" /\ exit' = exit ELSE Ends("err")
    /\ UNCHANGED <<clock, server, disk, today, ignore_undownloaded, discover_vars,
                   refresh_vars, download_vars, loaded, prev, pool>>

\* The process is gone; nothing of its memory remains.
Terminate ==
    /\ pc = "done"
    /\ pc' = "off"
    /\ exit' = "none"
    /\ today' = Idle.today
    /\ last_update' = Idle.last_update
    /\ records' = Idle.records
    /\ ignore_undownloaded' = Idle.ignore_undownloaded
    /\ fd_records' = Idle.fd_records
    /\ next_marker' = Idle.next_marker
    /\ updated_records' = Idle.updated_records
    /\ visited' = Idle.visited
    /\ downloads' = Idle.downloads
    /\ download_status' = Idle.download_status
    /\ tasks' = Idle.tasks
    /\ semaphore' = Idle.semaphore
    /\ awaited' = Idle.awaited
    /\ requested' = Idle.requested
    /\ filter' = Idle.filter
    /\ disk0' = Idle.disk0
    /\ loaded' = Idle.loaded
    /\ UNCHANGED <<env_vars, saved, prev, pool>>

\* ------------------------------------------------------------------ File Lister

\* The file names the remote may list for a partition.
FileA == <<"a">>
FileB == <<"b">>
FileListings == {<<FileA>>, <<FileA, FileB>>}

\* A partition with nothing in it, and a listing that repeats a file name.
OddListings == {<<>>, <<FileA, FileA>>}
AnyListings == FileListings \cup OddListings

\* fetch_files_for_date against a remote srv, from the request with cursor on
\* (lines 205-228); fuel bounds the walk, which ends on a remote that
\* paginates.
RECURSIVE FetchFilesForDate(_, _, _, _)
FetchFilesForDate(srv, cursor, files, fuel) ==
    LET data == Respond(srv, cursor)
        file_list == Unwrap(data.recordFileList)
        more == files \o [i \in 1..Len(file_list) |-> FileRecord(Unwrap(file_list[i]))]
    IN  IF data.isTruncate /\ fuel > 0
        THEN FetchFilesForDate(srv, data.nextMarker, more, fuel - 1)
        ELSE more

\* ------------------------------------------------------------------ Refresh

\* main lines 59-62 and the head of update_file_lists (lines 270-277).
BeginRefresh ==
    /\ pc = "ready"
    /\ \E set_ignore \in BOOLEAN : ignore_undownloaded' = set_ignore
    /\ updated_records' = NoLists
    /\ visited' = {}
    /\ pc' = "update_file_lists"
    /\ UNCHANGED <<env_vars, exit, today, last_update, records, discover_vars,
                   download_vars, loaded, saved, prev, pool>>

\* A failure that writes back the lists fetched so far.
ListFilesFails_WritesBack ==
    /\ Ends("err")
    /\ records' = [date \in DOMAIN records |->
                      IF date \in DOMAIN updated_records
                      THEN DateRecord(records[date].downloaded, updated_records[date])
                      ELSE records[date]]
    /\ UNCHANGED <<updated_records, today, last_update, ignore_undownloaded>>

\* fetch_files_for_date returns Err: the ? of line 282 leaves
\* update_file_lists, dropping updated_records.
ListFilesFails ==
    /\ Ends("err")
    /\ UNCHANGED <<updated_records, fetcher_vars>>

\* One iteration of the first for loop of update_file_lists (lines 280-289);
\* a HashMap iterates in no particular order.
ListFilesOf(listings) ==
    /\ pc = "update_file_lists"
    /\ \E date \in DOMAIN records \ visited :
          /\ visited' = visited \cup {date}
          /\ IF records[date].files = <<>>
             THEN \E transport \in {"ok", "failed"}, listing \in listings :
                     IF transport = "ok"
                     THEN /\ updated_records' =
                               (date :> FetchFilesForDate(Paginate(listing), None,
                                                          <<>>, Len(listing)))
                               @@ updated_records
                          /\ UNCHANGED <<pc, exit, fetcher_vars>>
                     ELSE ListFilesFails
             ELSE UNCHANGED <<pc, exit, updated_records, fetcher_vars>>
    /\ UNCHANGED <<env_vars, discover_vars, download_vars, loaded, saved, prev, pool>>

\* The remote lists one or two distinct files for every partition.
ListFiles == ListFilesOf(FileListings)

\* The remote lists anything.
ListFilesAny == ListFilesOf(AnyListings)

\* A write-back that writes nothing.
WriteBack_Dropped(recs, updated) == recs

\* The second for loop of update_file_lists (lines 292-296).
WriteBack(recs, updated) ==
    [date \in DOMAIN recs |->
        IF date \in DOMAIN updated
        THEN DateRecord(recs[date].downloaded, updated[date])
        ELSE recs[date]]

\* The rest of update_file_lists (lines 291-301).
FinishRefresh ==
    /\ pc = "update_file_lists"
    /\ visited = DOMAIN records
    /\ records' = WriteBack(records, updated_records)
    /\ \E io \in SaveOutcomes :
          /\ store' = SaveToFile(store, [last_update |-> last_update,
                                         records |-> WriteBack(records, updated_records)],
                                 io)
          /\ saved' = SavedAfter(saved, [last_update |-> last_update,
                                         records |-> WriteBack(records, updated_records)],
                                 io)
          /\ IF io = "ok" THEN pc' = "schedule" /\ exit' = exit ELSE Ends("err")
    /\ UNCHANGED <<clock, server, disk, today, last_update, ignore_undownloaded,
                   discover_vars, refresh_vars, download_vars, loaded, prev, pool>>

\* ------------------------------------------------------------------ Download Scheduler

\* The predicate main builds from its include and exclude substrings
\* (main.rs lines 64-76); None is an option that was not given.
Filter(f, file_name) ==
    LET include == IF IsSome(f.include)
                   THEN \E inc \in Unwrap(f.include) : Contains(file_name, inc)
                   ELSE TRUE
        exclude == IF IsSome(f.exclude)
                   THEN \E exc \in Unwrap(f.exclude) : Contains(file_name, exc)
                   ELSE FALSE
    IN  include /\ ~exclude

Filters == {AcceptAll, [include |-> None, exclude |-> Some({FileB})]}

SavePath(date, file_name) == <<date, file_name>>

\* build_file_download_url: the URL is made of the date and the file name
BuildFileDownloadUrl(date, file_name) == <<date, file_name>>

Exists(dsk, path) == path \in DOMAIN dsk

\* ToFetch without the test of the destination path.
ToFetch_NoExistsTest(f, dsk, date, files) ==
    SelectSeq(files, LAMBDA file : Filter(f, file.file_name))

\* The files of a record that get a download task (line 324).
ToFetch(f, dsk, date, files) ==
    SelectSeq(files, LAMBDA file :
        Filter(f, file.file_name) /\ ~Exists(dsk, SavePath(date, file.file_name)))

\* The downloads the loop of lines 318-332 pushes, visiting the records in
\* the given order.
RECURSIVE BuildDownloads(_, _, _, _)
BuildDownloads(f, dsk, recs, order) ==
    IF Len(order) = 0 THEN <<>>
    ELSE LET date == order[1]
             fetch == ToFetch(f, dsk, date, recs[date].files)
         IN  [i \in 1..Len(fetch) |->
                 [file_url |-> BuildFileDownloadUrl(date, fetch[i].file_name),
                  save_path |-> SavePath(date, fetch[i].file_name),
                  date |-> date]]
             \o BuildDownloads(f, dsk, recs, Tail(order))

\* all_exist of every record (lines 322-331).
InitialStatus(f, dsk, recs) ==
    [date \in DOMAIN recs |-> Len(ToFetch(f, dsk, date, recs[date].files)) = 0]

Orders(S) == {o \in [1..Cardinality(S) -> S] : \A x \in S : \E i \in DOMAIN o : o[i] = x}

Task(state, body) == [state |-> state, body |-> body]

\* download_unfetched_files from the return of update_file_lists to the first
\* spawn (lines 309-337).
Schedule ==
    /\ pc = "schedule"
    /\ \E f \in Filters, order \in Orders(DOMAIN records), dirs \in {"ok", "failed"} :
          IF dirs = "failed" /\ order # <<>>
          THEN Ends("err") /\ UNCHANGED download_vars
          ELSE /\ downloads' = BuildDownloads(f, disk, records, order)
               /\ download_status' = InitialStatus(f, disk, records)
               /\ tasks' = [i \in 1..Len(BuildDownloads(f, disk, records, order)) |->
                               Task("queued", "none")]
               /\ semaphore' = max_concurrent_downloads
               /\ awaited' = 0
               /\ requested' = {}
               /\ filter' = f
               /\ disk0' = DOMAIN disk
               /\ pc' = "download"
               /\ exit' = exit
    /\ UNCHANGED <<env_vars, fetcher_vars, discover_vars, refresh_vars, loaded, saved, prev, pool>>

\* An acquire that never waits.
PermitFree_Always(sem) == TRUE

\* semaphore.acquire_owned().await returns once a permit is free (line 341).
PermitFree(sem) == sem > 0

Spawned == Cardinality({i \in DOMAIN tasks : tasks[i].state # "queued"})

\* One iteration of the spawning loop (lines 340-349): a permit is taken
\* before the task is spawned.
Spawn ==
    /\ pc = "download"
    /\ Spawned < Len(downloads)
    /\ PermitFree(semaphore)
    /\ semaphore' = semaphore - 1
    /\ tasks' = [tasks EXCEPT ![Spawned + 1] = Task("fetching", "none")]
    /\ UNCHANGED <<env_vars, pc, exit, fetcher_vars, discover_vars, refresh_vars,
                   downloads, download_status, awaited, requested, filter, disk0, loaded, saved, prev, pool>>

\* A spawned task runs while the process lives: until it ends, or until the
\* runtime is dropped after main returned.
TasksRun == pc = "download" \/ (pc = "done" /\ tasks # <<>>)

\* download_and_save_file up to the creation of the file (lines 373-374).
\* A response that is no success is a response all the same: its body is
\* written like a file's.
TaskGet(i) ==
    /\ TasksRun
    /\ tasks[i].state = "fetching"
    /\ requested' = requested \cup {downloads[i].save_path}
    /\ \E response \in {"file", "error_page", "send_failed", "create_failed"} :
          IF response \in {"send_failed", "create_failed"}
          THEN /\ tasks' = [tasks EXCEPT ![i] = Task("failed", "none")]
               /\ semaphore' = semaphore + 1
               /\ disk' = disk
          ELSE /\ tasks' = [tasks EXCEPT ![i] = Task("writing", response)]
               /\ semaphore' = semaphore
               /\ disk' = (downloads[i].save_path :> "partial") @@ disk
    /\ UNCHANGED <<clock, server, store, pc, exit, fetcher_vars, discover_vars,
                   refresh_vars, downloads, download_status, awaited, filter, disk0, loaded, saved, prev, pool>>

\* The chunk loop of download_and_save_file and the release of the permit
\* (lines 375-378 and 345).
TaskWrite(i) ==
    /\ TasksRun
    /\ tasks[i].state = "writing"
    /\ semaphore' = semaphore + 1
    /\ \E written \in BOOLEAN :
          IF written
          THEN /\ tasks' = [tasks EXCEPT ![i] = Task("finished", "none")]
               /\ disk' = (downloads[i].save_path :> tasks[i].body) @@ disk
          ELSE /\ tasks' = [tasks EXCEPT ![i] = Task("failed", "none")]
               /\ disk' = disk
    /\ UNCHANGED <<clock, server, store, pc, exit, fetcher_vars, discover_vars,
                   refresh_vars, downloads, download_status, awaited, requested,
                   filter, disk0, loaded, saved, prev, pool>>

RunTask == \E i \in DOMAIN tasks : TaskGet(i) \/ TaskWrite(i)

\* One iteration of the loop that takes the tasks' results in spawning
\* order (lines 354-357): the first Err ends download_unfetched_files.
Await ==
    /\ pc = "download"
    /\ Spawned = Len(downloads)
    /\ awaited < Len(tasks)
    /\ tasks[awaited + 1].state \in {"finished", "failed"}
    /\ IF tasks[awaited + 1].state = "finished"
       THEN /\ download_status' =
                 (downloads[awaited + 1].date :> TRUE) @@ download_status
            /\ awaited' = awaited + 1
            /\ UNCHANGED <<pc, exit>>
       ELSE Ends("err") /\ UNCHANGED <<download_status, awaited>>
    /\ UNCHANGED <<env_vars, fetcher_vars, discover_vars, refresh_vars, downloads,
                   tasks, semaphore, requested, filter, disk0, loaded, saved, prev,
                   pool>>

ApplyStatus(recs, status) ==
    [date \in DOMAIN recs |->
        IF date \in DOMAIN status
        THEN DateRecord(status[date], recs[date].files)
        ELSE recs[date]]

\* The end of download_unfetched_files (lines 359-368) and of main.
FinishDownload ==
    /\ pc = "download"
    /\ Spawned = Len(downloads)
    /\ awaited = Len(tasks)
    /\ records' = ApplyStatus(records, download_status)
    /\ Ends("ok")
    /\ UNCHANGED <<env_vars, today, last_update, ignore_undownloaded, discover_vars,
                   refresh_vars, download_vars, loaded, saved, prev, pool>>

\* ------------------------------------------------------------------ interruption

\* The process is stopped once new() has returned, before main goes on
\* (main.rs line 57): what it leaves behind is what a Bootstrap leaves.
Interrupt ==
    /\ pc = "ready"
    /\ Ends("interrupted")
    /\ prev' = Some([catalog |-> Catalog, server |-> server, today |-> today])
    /\ UNCHANGED <<env_vars, fetcher_vars, discover_vars, refresh_vars,
                   download_vars, loaded, saved, pool>>

\* ------------------------------------------------------------------ permit pool

\* The spawning loop and the tasks of download_unfetched_files, the tasks
\* being counted instead of named: pool.queued downloads wait to be spawned,
\* pool.fetching and pool.writing tasks hold a permit.
PoolSpawn ==
    /\ pool.queued > 0
    /\ PermitFree(pool.semaphore)
    /\ pool' = [pool EXCEPT !.queued = @ - 1, !.fetching = @ + 1,
                            !.semaphore = @ - 1]
    /\ UNCHANGED <<env_vars, pc, exit, fetcher_vars, discover_vars, refresh_vars,
                   download_vars, loaded, saved, prev>>

PoolGet ==
    /\ pool.fetching > 0
    /\ \E response \in {"file", "error_page", "send_failed", "create_failed"} :
          IF response \in {"send_failed", "create_failed"}
          THEN pool' = [pool EXCEPT !.fetching = @ - 1, !.ended = @ + 1,
                                    !.semaphore = @ + 1]
          ELSE pool' = [pool EXCEPT !.fetching = @ - 1, !.writing = @ + 1]
    /\ UNCHANGED <<env_vars, pc, exit, fetcher_vars, discover_vars, refresh_vars,
                   download_vars, loaded, saved, prev>>

PoolWrite ==
    /\ pool.writing > 0
    /\ pool' = [pool EXCEPT !.writing = @ - 1, !.ended = @ + 1, !.semaphore = @ + 1]
    /\ UNCHANGED <<env_vars, pc, exit, fetcher_vars, discover_vars, refresh_vars,
                   download_vars, loaded, saved, prev>>

\* ------------------------------------------------------------------ catalogs and documents

Keys(dates) == {KeyOf(a) : a \in dates}

\* What a record can be after some runs of the program.
RecordStates ==
    {DateRecord(FALSE, <<>>)}
    \cup {DateRecord(dl, <<FileRecord(FileA)>>) : dl \in BOOLEAN}
    \cup {DateRecord(dl, <<FileRecord(FileA), FileRecord(FileB)>>) : dl \in BOOLEAN}

SavedFile(cat) == FileText(SaveDoc(cat))

\* A fileName that is no date.
Junk == <<"x">>

\* Any Catalog a fetcher's fields can hold, whatever wrote them.
AnyFileLists ==
    {<<>>, <<FileRecord(FileA)>>, <<FileRecord(FileA), FileRecord(FileB)>>,
     <<FileRecord(FileB), FileRecord(FileA)>>}

AnyCatalogs ==
    UNION {[last_update : {None} \cup {Some(a) : a \in PastDays \cup {FirstDay}},
            records : [ks -> [downloaded : BOOLEAN, files : AnyFileLists]]]
           : ks \in SUBSET (Keys(PastDays) \cup {Junk})}

\* save_to_file called on a fetcher whose fields are any Catalog, over a
\* state file that no save wrote.
SaveCall ==
    /\ pc = "off"
    /\ saved = None
    /\ prev = None
    /\ \E cat \in AnyCatalogs, io \in SaveOutcomes :
          /\ store' = SaveToFile(store, cat, io)
          /\ saved' = SavedAfter(saved, cat, io)
    /\ UNCHANGED <<clock, server, disk, pc, exit, fetcher_vars, discover_vars,
                   refresh_vars, download_vars, loaded, prev, pool>>

OneRecord(rec) == JObj(KeyOf(DayN(0 - 1)) :> rec)

Doc(last, dates) == FileText(JObj((K_last_update :> last) @@ (K_dates :> dates)))

GoodRecord == SaveRecord(DateRecord(TRUE, <<FileRecord(FileA)>>))

\* State files that no save_to_file wrote, and one it could have written.
DocSamples ==
    << None,
       FileUnreadable,
       FileGarbage,
       FileText(JArr(<<>>)),
       Doc(JStr(<<"2", "0", "2", "3", "/", "1", "2", "/", "3", "0">>),
           OneRecord(GoodRecord)),
       Doc(JNum(20231230), OneRecord(GoodRecord)),
       Doc(JStr(FormatDash(FirstDay)), JNum(5)),
       Doc(JStr(FormatDash(DayN(0 - 1))), OneRecord(JStr(FileA))),
       Doc(JStr(FormatDash(DayN(0 - 1))),
           OneRecord(JObj((K_downloaded :> JStr(FileA)) @@ (K_files :> JNull)))),
       Doc(JStr(FormatDash(FirstDay)),
           OneRecord(JObj((K_downloaded :> JBool(TRUE))
                          @@ (K_files :> JArr(<<JStr(FileA), JNum(1)>>))))),
       Doc(JStr(FormatDash(FirstDay)), OneRecord(GoodRecord)) >>

\* ------------------------------------------------------------------ specifications

\* The program from an empty directory and a remote that lists nothing yet;
\* every process runs main to its end.
Next ==
    \/ Tick
    \/ Publish
    \/ Start
    \/ FetchDatesPage
    \/ FetchAndSave
    \/ BeginRefresh
    \/ ListFiles
    \/ FinishRefresh
    \/ Schedule
    \/ Spawn
    \/ RunTask
    \/ Await
    \/ FinishDownload
    \/ Terminate

Spec == Init /\ [][Next]_vars

\* Bootstrap after Bootstrap: every process is stopped once new() returned.
\* It starts on the first day with the past partitions listed or not and a
\* state file that earlier runs may have left.
InitBoot ==
    /\ clock = FirstDay
    /\ \E listed \in SUBSET PastDays :
          /\ server = Paginate(NewestFirst(listed))
          /\ \/ store = None /\ saved = None
             \/ \E w \in PastDays \cup {FirstDay} :
                \E recs \in [Keys({a \in listed : DateLT(a, w)}) -> RecordStates] :
                   /\ store = SavedFile([last_update |-> Some(w), records |-> recs])
                   /\ saved = Some([last_update |-> Some(w), records |-> recs])
    /\ disk = NoFiles
    /\ pc = "off"
    /\ exit = "none"
    /\ ProcessIdle
    /\ prev = None
    /\ pool = PoolIdle

NextBoot ==
    \/ Tick
    \/ Publish
    \/ Start
    \/ FetchDatesPage
    \/ FetchAndSave
    \/ Interrupt
    \/ Terminate

SpecBoot == InitBoot /\ [][NextBoot]_vars

\* Discovery against any remote listing, from any watermark: the listing
\* names days before the day it is, that day and days after it, in any order.
InitDisc ==
    /\ clock = FirstDay
    /\ \E n \in 0..MaxListing :
       \E listing \in [1..n -> Keys(PastDays \cup Days) \cup {Junk}] :
          server = Paginate(listing)
    /\ \/ store = None /\ saved = None
       \/ \E w \in PastDays \cup Days :
             /\ store = SavedFile([last_update |-> Some(w), records |-> NoRecords])
             /\ saved = Some([last_update |-> Some(w), records |-> NoRecords])
    /\ disk = NoFiles
    /\ pc = "off"
    /\ exit = "none"
    /\ ProcessIdle
    /\ prev = None
    /\ pool = PoolIdle

NextDisc ==
    \/ Start
    \/ FetchDatesPage
    \/ FetchAndSave
    \/ Interrupt
    \/ Terminate

SpecDisc == InitDisc /\ [][NextDisc]_vars

\* The Catalog Store: any state file, and any Catalog saved over it.
InitStore ==
    /\ clock = FirstDay
    /\ server = Paginate(NewestFirst(PastDays))
    /\ \E i \in DOMAIN DocSamples : store = DocSamples[i]
    /\ saved = None
    /\ disk = NoFiles
    /\ pc = "off"
    /\ exit = "none"
    /\ ProcessIdle
    /\ prev = None
    /\ pool = PoolIdle

NextStore ==
    \/ SaveCall
    \/ Start
    \/ FetchDatesPage
    \/ FetchAndSave
    \/ BeginRefresh
    \/ ListFilesAny
    \/ FinishRefresh
    \/ Interrupt
    \/ Terminate

SpecStore == InitStore /\ [][NextStore]_vars

\* One run of main over the past partitions, from any state earlier runs of
\* the day may have left them in.
InitDownload ==
    /\ clock = FirstDay
    /\ server = Paginate(NewestFirst(PastDays))
    /\ \E recs \in [Keys(PastDays) -> RecordStates] :
          /\ store = SavedFile([last_update |-> Some(FirstDay), records |-> recs])
          /\ saved = Some([last_update |-> Some(FirstDay), records |-> recs])
    /\ \E present \in SUBSET (Keys(PastDays) \X {FileA, FileB}) :
          disk = [path \in present |-> "file"]
    /\ pc = "off"
    /\ exit = "none"
    /\ ProcessIdle
    /\ prev = None
    /\ pool = PoolIdle

NextDownload ==
    \/ Start
    \/ BeginRefresh
    \/ ListFilesAny
    \/ FinishRefresh
    \/ Schedule
    \/ Spawn
    \/ RunTask
    \/ Await
    \/ FinishDownload

SpecDownload == InitDownload /\ [][NextDownload]_vars

\* The permit pool with more downloads than permits.
InitPool ==
    /\ clock = FirstDay
    /\ server = Paginate(<<>>)
    /\ store = None
    /\ disk = NoFiles
    /\ pc = "off"
    /\ exit = "none"
    /\ ProcessIdle
    /\ saved = None
    /\ prev = None
    /\ \E n \in 0..(max_concurrent_downloads + ExtraTasks) :
          pool = [PoolIdle EXCEPT !.queued = n]

NextPool == PoolSpawn \/ PoolGet \/ PoolWrite

SpecPool == InitPool /\ [][NextPool]_vars

\* Discovery against a remote whose pages are anything: empty or not,
\* flagged truncated or not, with a next cursor or without.
AnyPages ==
    {Page(Some(list), trunc, marker) :
        list \in {<<>>, <<Some(KeyOf(DayN(0 - 1)))>>},
        trunc \in BOOLEAN,
        marker \in {None, Some(Marker(2))}}

InitPages ==
    /\ clock = FirstDay
    /\ server \in [{None, Some(Marker(2))} -> AnyPages]
    /\ \/ store = None /\ saved = None
       \/ \E w \in PastDays :
             /\ store = SavedFile([last_update |-> Some(w), records |-> NoRecords])
             /\ saved = Some([last_update |-> Some(w), records |-> NoRecords])
    /\ disk = NoFiles
    /\ pc = "off"
    /\ exit = "none"
    /\ ProcessIdle
    /\ prev = None
    /\ pool = PoolIdle

SpecPages == InitPages /\ [][NextDisc]_vars

\* Refresh passes, one process after another, over a state file that holds
\* two partitions.
TwoDays == {DayN(0 - 1), DayN(0 - 2)}

InitRefresh ==
    /\ clock = FirstDay
    /\ server = Paginate(NewestFirst(TwoDays))
    /\ \E recs \in [Keys(TwoDays) -> RecordStates] :
          /\ store = SavedFile([last_update |-> Some(FirstDay), records |-> recs])
          /\ saved = Some([last_update |-> Some(FirstDay), records |-> recs])
    /\ disk = NoFiles
    /\ pc = "off"
    /\ exit = "none"
    /\ ProcessIdle
    /\ prev = None
    /\ pool = PoolIdle

NextRefresh ==
    \/ Start
    \/ BeginRefresh
    \/ ListFilesAny
    \/ FinishRefresh
    \/ Interrupt
    \/ Terminate

SpecRefresh == InitRefresh /\ [][NextRefresh]_vars

\* Download passes of a process that ends when main returns, the runtime
\* dropping the tasks that are still running.  The process and its tasks
\* keep taking steps; starting the program is left to the user.
NextLive == NextDownload \/ FetchDatesPage \/ FetchAndSave \/ Terminate

Fairness ==
    /\ WF_vars(FetchDatesPage)
    /\ WF_vars(FetchAndSave)
    /\ WF_vars(BeginRefresh)
    /\ WF_vars(ListFilesAny)
    /\ WF_vars(FinishRefresh)
    /\ WF_vars(Schedule)
    /\ WF_vars(Spawn)
    /\ WF_vars(RunTask)
    /\ WF_vars(Await)
    /\ WF_vars(FinishDownload)
    /\ WF_vars(Terminate)

SpecLive == InitDownload /\ [][NextLive]_vars /\ Fairness

\* ------------------------------------------------------------------ claims

\* C1: after a Bootstrap on day T, every partition the remote lists with a
\* date strictly before T is in records.
C1_DiscoveryComplete ==
    pc = "ready" =>
        \A a \in ListedDates(server) :
            DateLT(a, today) => KeyOf(a) \in DOMAIN records

\* C2: after a Bootstrap, every record of the Catalog it loaded is still in
\* records with its downloaded flag and files unchanged, and the watermark
\* is today.
C2_MergePreserves ==
    pc = "ready" =>
        /\ \A k \in DOMAIN loaded.records :
              k \in DOMAIN records /\ records[k] = loaded.records[k]
        /\ last_update = Some(today)

\* C8 as stated: a Bootstrap that follows a Bootstrap, the remote listing
\* being the same, ends with the Catalog the first one ended with.
C8_ResyncAnyDay ==
    (pc = "ready" /\ IsSome(prev) /\ Unwrap(prev).server = server)
        => Catalog = Unwrap(prev).catalog

\* C8: a Bootstrap that follows a Bootstrap of the same calendar day, the
\* remote listing being the same, ends with the Catalog (watermark, keys,
\* downloaded flags, file lists) the first one ended with.
C8_ResyncSameDay ==
    (pc = "ready" /\ IsSome(prev) /\ Unwrap(prev).server = server
        /\ Unwrap(prev).today = today)
        => Catalog = Unwrap(prev).catalog

C8_Witness ==
    /\ pc = "ready"
    /\ IsSome(prev)
    /\ Unwrap(prev).server = server
    /\ Unwrap(prev).today = today
    /\ Catalog = Unwrap(prev).catalog
    /\ \E k \in DOMAIN records : records[k].downloaded /\ Len(records[k].files) = 2

\* A Download run has ended: download_unfetched_files has returned Ok or Err
\* after its scheduling loop, and no task is still running.
DownloadEnded ==
    /\ pc = "done"
    /\ exit \in {"ok", "err"}
    /\ records # NoRecords
    /\ DOMAIN download_status = DOMAIN records
    /\ \A i \in DOMAIN tasks : tasks[i].state \in {"finished", "failed"}

\* Every file of the record that the predicate accepts is on the disk.
AllPresent(date) ==
    \A i \in DOMAIN records[date].files :
        Filter(filter, records[date].files[i].file_name)
            => Exists(disk, SavePath(date, records[date].files[i].file_name))

\* C3: after a Download run, failed tasks included, a partition has
\* downloaded = true if and only if every file of it that the predicate
\* accepts is present at its destination path (no half-written file being
\* counted as present or absent).
C3_SuccessConjunction ==
    (DownloadEnded /\ \A p \in DOMAIN disk : disk[p] # "partial")
        => \A date \in DOMAIN records : records[date].downloaded <=> AllPresent(date)

\* What a process started now would load from the state file.
Reloaded == LoadFromFile(store, FreshCatalog)

\* C5: after a Download pass that completed, a restarted process loads
\* downloaded = true for every partition the pass marked as downloaded.
C5_DownloadDurable ==
    (DownloadEnded /\ exit = "ok")
        => \A date \in DOMAIN records :
              records[date].downloaded
                  => /\ Reloaded.res = "ok"
                     /\ date \in DOMAIN Reloaded.records
                     /\ Reloaded.records[date].downloaded

\* The scheduling loop of download_unfetched_files has run.
Scheduled ==
    /\ pc \in {"download", "done"}
    /\ records # NoRecords
    /\ DOMAIN download_status = DOMAIN records

\* The files of the record that the predicate accepts and that were on the
\* disk when the tasks were scheduled.
Skipped(date) ==
    {i \in DOMAIN records[date].files :
        /\ Filter(filter, records[date].files[i].file_name)
        /\ SavePath(date, records[date].files[i].file_name) \in disk0}

Accepted(date) ==
    {i \in DOMAIN records[date].files :
        Filter(filter, records[date].files[i].file_name)}

\* C4: a file that passes the predicate and is on the disk when the tasks are
\* scheduled gets no download entry and no fetch request, and counts as a
\* success: a partition all of whose accepted files were there has status
\* true, and a pass that returns Ok marks every partition downloaded.
C4_ExistingSkipped ==
    Scheduled =>
        /\ \A i \in DOMAIN downloads : downloads[i].save_path \notin disk0
        /\ requested \cap disk0 = {}
        /\ \A date \in DOMAIN records :
              Skipped(date) = Accepted(date) => download_status[date]
        /\ (pc = "done" /\ exit = "ok")
              => \A date \in DOMAIN records :
                    Skipped(date) # {} => records[date].downloaded

C4_Witness ==
    /\ Scheduled
    /\ pc = "done"
    /\ exit = "ok"
    /\ requested # {}
    /\ \E date \in DOMAIN records :
          /\ Skipped(date) # {}
          /\ Skipped(date) # Accepted(date)
          /\ records[date].downloaded

\* C6: at every moment of the Download phase the tasks in flight (fetching
\* or writing) are at most max_concurrent_downloads, however many downloads
\* are scheduled and in whatever order the tasks end or fail; each of them
\* holds one permit.
C6_BoundedFanOut ==
    /\ pool.fetching + pool.writing <= max_concurrent_downloads
    /\ pool.semaphore = max_concurrent_downloads - (pool.fetching + pool.writing)

C6_Witness ==
    /\ pool.fetching + pool.writing = max_concurrent_downloads
    /\ pool.queued > 0
    /\ pool.writing > 0
    /\ pool.ended > 0

\* C7: whatever the remote lists, in whatever order and on whatever pages,
\* and whatever the watermark W, the keys discovery has collected are dates,
\* none of them at or before W and none of them today.
C7_DiscoveryBoundary ==
    pc \in {"fetch_dates", "fetch_and_save"} =>
        \A k \in DOMAIN fd_records :
            /\ IsSome(ParseCompact(k))
            /\ IsSome(last_update) => DateLT(Unwrap(last_update), Unwrap(ParseCompact(k)))
            /\ Unwrap(ParseCompact(k)) # today

\* Discovery has returned some keys although the remote lists today's key
\* and the key of the watermark.
C7_Witness ==
    /\ pc = "fetch_and_save"
    /\ fd_records # NoRecords
    /\ IsSome(last_update)
    /\ KeyOf(today) \in Listed(server)
    /\ KeyOf(Unwrap(last_update)) \in Listed(server)

\* A record of the shape save_to_file writes.
WellFormedRecord(rec) ==
    /\ rec.t = "obj"
    /\ JIndex(rec, K_downloaded).t = "bool"
    /\ JIndex(rec, K_files).t = "arr"
    /\ \A i \in DOMAIN JIndex(rec, K_files).v : JIndex(rec, K_files).v[i].t = "str"

\* A state file of the shape save_to_file writes.
WellFormed(file) ==
    /\ IsSome(file)
    /\ Unwrap(file).readable
    /\ Unwrap(file).parses
    /\ Unwrap(file).json.t = "obj"
    /\ K_dates \in DOMAIN Unwrap(file).json.v
    /\ Unwrap(file).json.v[K_dates].t = "obj"
    /\ \A k \in DOMAIN Unwrap(file).json.v[K_dates].v :
          WellFormedRecord(Unwrap(file).json.v[K_dates].v[k])
    /\ K_last_update \in DOMAIN Unwrap(file).json.v
          => /\ Unwrap(file).json.v[K_last_update].t = "str"
             /\ IsSome(ParseDash(Unwrap(file).json.v[K_last_update].v))

\* C9: when the state file is absent, unreadable or malformed in any way, the
\* load of Bootstrap does not crash: it leaves no watermark and no records
\* and goes on to a discovery with no boundary.
C9_LoadFailureRecovers ==
    [][(Start /\ ~WellFormed(store))
          => (pc' = "fetch_dates" /\ last_update' = None /\ records' = NoRecords)]_vars

\* C10: a Catalog with at least one record that save_to_file has written is
\* what load_from_file reads back: the same watermark, the same keys, and
\* for each key the same downloaded flag and the same file names in the same
\* order.
C10_RoundTrip ==
    (IsSome(saved) /\ Unwrap(saved).records # NoRecords)
        => Reloaded = [res |-> "ok",
                       last_update |-> Unwrap(saved).last_update,
                       records |-> Unwrap(saved).records]

\* A Bootstrap has loaded a Catalog that a save wrote, with a watermark and
\* a downloaded record of two files that are not in alphabetical order.
C10_Witness ==
    /\ pc = "ready"
    /\ IsSome(saved)
    /\ loaded = Unwrap(saved)
    /\ IsSome(loaded.last_update)
    /\ \E k \in DOMAIN loaded.records :
          /\ loaded.records[k].downloaded
          /\ loaded.records[k].files = <<FileRecord(FileB), FileRecord(FileA)>>

\* The fetch of download i ended in a transport error: the request or the
\* write failed, or the remote answered with a non-success response, whose
\* body is what the destination path now holds.
ErrorFetch(i) ==
    \/ tasks[i].state = "failed"
    \/ /\ tasks[i].state = "finished"
       /\ disk[downloads[i].save_path] = "error_page"

\* C11: a file fetch that ends in a transport error, a non-success response
\* included, is a failed task: its result is not taken as a success, and a
\* pass that returns Ok has not marked its partition downloaded.
C11_ErrorFetchFails ==
    Scheduled =>
        \A i \in DOMAIN downloads :
            ErrorFetch(i) =>
                /\ awaited < i
                /\ (pc = "done" /\ exit = "ok")
                      => ~records[downloads[i].date].downloaded

\* C12: a download that fails leaves no file at its destination path, so
\* that the test of the destination path of a later run schedules the file
\* again instead of taking it as already downloaded.
C12_NoPartialFile ==
    Scheduled =>
        \A i \in DOMAIN downloads :
            tasks[i].state = "failed"
                => /\ ~Exists(disk, downloads[i].save_path)
                   /\ Len(ToFetch(filter, disk, downloads[i].date,
                                  records[downloads[i].date].files)) > 0

\* The most downloads a pass schedules: two files for each past day.
MaxDownloads == 2 * Past

\* Download i has run to an outcome, success or failure.
HasOutcome(i) ==
    i \in DOMAIN tasks /\ tasks[i].state \in {"finished", "failed"}

\* C13: every download that a pass has scheduled eventually runs to an
\* outcome, whatever happens to the other tasks of the pass.
C13_NoCancellation ==
    \A i \in 1..MaxDownloads :
        (pc = "download" /\ i \in DOMAIN downloads) ~> HasOutcome(i)

\* The record is one the Download phase is to consider: not downloaded when
\* the process loaded it, or any record under the ignore flag, and with
\* files to fetch.
Selected(date) ==
    /\ ~loaded.records[date].downloaded \/ ignore_undownloaded
    /\ records[date].files # <<>>

\* C14: the Download phase builds tasks and sets the downloaded flag only
\* for the records that are not downloaded (all of them under the ignore
\* flag) and have files: any other record gets no download, and a pass that
\* returns Ok leaves its flag as it was.
C14_TaskSelection ==
    Scheduled =>
        \A date \in DOMAIN records \cap DOMAIN loaded.records :
            ~Selected(date) =>
                /\ \A i \in DOMAIN downloads : downloads[i].date # date
                /\ (pc = "done" /\ exit = "ok")
                      => records[date].downloaded = loaded.records[date].downloaded

\* The page that answers the request fetch_dates is about to send.
CurrentPage == Respond(server, next_marker)

\* C15: discovery requests another page only after a page that has entries
\* and reports a continuation, and then with a cursor other than the one it
\* has just used: it does not go on after an empty page, and does not
\* request the same cursor again.
C15_DiscoveryTerminates ==
    [][(pc = "fetch_dates" /\ pc' = "fetch_dates")
          => /\ CurrentPage.isTruncate
             /\ Unwrap(CurrentPage.recordFileList) # <<>>
             /\ next_marker' # next_marker]_vars

\* C16: a Refresh calls the File Lister for the records it has visited whose
\* files list was empty and for no other record; after a successful Refresh
\* every record that had no files holds what the lister returned for it,
\* every other files list is as it was, and every downloaded flag is as it
\* was.
C16_RefreshSentinel ==
    /\ pc \in {"update_file_lists", "schedule"}
          => \A date \in DOMAIN loaded.records :
                date \in DOMAIN updated_records
                    <=> (date \in visited /\ loaded.records[date].files = <<>>)
    /\ pc = "schedule"
          => /\ DOMAIN records = DOMAIN loaded.records
             /\ \A date \in DOMAIN records :
                   /\ records[date].downloaded = loaded.records[date].downloaded
                   /\ records[date].files =
                         IF loaded.records[date].files = <<>>
                         THEN updated_records[date]
                         ELSE loaded.records[date].files

\* A Refresh has succeeded, having listed two files for a record that had
\* none.
C16_Witness ==
    /\ pc = "schedule"
    /\ \E date \in DOMAIN records :
          /\ loaded.records[date].files = <<>>
          /\ updated_records[date] = <<FileRecord(FileA), FileRecord(FileB)>>
          /\ records[date].files = updated_records[date]

\* C17: right after a successful Bootstrap, whether discovery ran or not,
\* and right after a successful Refresh, the state file holds the Catalog
\* the process has in memory, watermark and records; after a Bootstrap the
\* watermark it holds is today.
C17_PersistedTracksMemory ==
    pc \in {"ready", "schedule"}
        => /\ Reloaded = [res |-> "ok", last_update |-> last_update,
                          records |-> records]
           /\ pc = "ready" => Reloaded.last_update = Some(today)

\* A Refresh has succeeded after a Bootstrap that ran discovery, and the
\* state file holds a record with the files the Refresh listed.
C17_Witness ==
    /\ pc = "schedule"
    /\ loaded.last_update # Some(today)
    /\ Reloaded.last_update = Some(today)
    /\ \E date \in DOMAIN Reloaded.records :
          /\ Len(Reloaded.records[date].files) = 2
          /\ Reloaded.records[date] = records[date]

\* C18: no two downloads of a pass have the same destination path, whatever
\* file lists the File Lister has produced, so that no two tasks in flight
\* write the same file.
C18_DistinctDestinations ==
    Scheduled =>
        \A i, j \in DOMAIN downloads :
            i # j => downloads[i].save_path # downloads[j].save_path

\* C19: a discovery pass that ends with a transport or parse error makes
\* Bootstrap return an error with the records and the watermark in memory
\* as they were loaded and the state file as it was: no step of the pass
\* but its successful end touches any of them.
C19_DiscoveryFailureUntouched ==
    [][(pc = "fetch_dates" /\ pc' \in {"fetch_dates", "done"})
          => /\ store' = store
             /\ records' = loaded.records
             /\ last_update' = loaded.last_update
             /\ pc' = "done" => exit' \in {"err", "panic"}]_vars

\* Bootstrap has returned an error from a discovery that had already found
\* partitions, and the process holds the watermark and the records it
\* loaded.
C19_Witness ==
    /\ pc = "done"
    /\ exit = "err"
    /\ fd_records # NoRecords
    /\ loaded.records # NoRecords
    /\ records = loaded.records
    /\ IsSome(last_update)
    /\ last_update = loaded.last_update
    /\ last_update # Some(today)
    /\ Reloaded.records = loaded.records

\* C20: when the File Lister fails for a partition, the Refresh returns an
\* error, and no step of the pass up to there has changed a record or the
\* state file, the lists fetched earlier in the pass included; a Refresh
\* that succeeds has listed every record that had no files.
C20_RefreshAllOrNothing ==
    /\ [][(pc = "update_file_lists" /\ visited # DOMAIN records)
             => /\ records' = records
                /\ store' = store
                /\ pc' \in {"update_file_lists", "done"}
                /\ pc' = "done" => exit' = "err"]_vars
    /\ [](pc = "schedule"
             => \A date \in DOMAIN loaded.records :
                   loaded.records[date].files = <<>>
                       => date \in DOMAIN updated_records)

\* A Refresh has failed on one partition after it had fetched files for
\* another, and both still have no files, in memory and in the state file.
C20_Witness ==
    /\ pc = "done"
    /\ exit = "err"
    /\ \E d1, d2 \in DOMAIN records :
          /\ d1 # d2
          /\ d1 \in DOMAIN updated_records
          /\ updated_records[d1] # <<>>
          /\ d2 \notin DOMAIN updated_records
          /\ records[d1].files = <<>>
          /\ records[d2].files = <<>>
          /\ Reloaded.records[d1].files = <<>>
          /\ Reloaded.records[d2].files = <<>>

====
